---- MODULE Spec2Model ----
(***************************************************************************)
(* The job lifecycle controller of the Q-methodology web app                *)
(* (static/app.js, class QMethodApp): submission, status polling, the       *)
(* elapsed-time timer, the four page sections and reset.                    *)
(*                                                                          *)
(* The controller runs on the browser's event loop.  Every handler runs to  *)
(* its next await; the continuation after an await is a separate step.      *)
(* The model has one action per handler segment:                            *)
(*   user events      ClickStart, CtrlEnter, Reset                          *)
(*   timer callbacks  PollTick, TimerTick                                   *)
(*   network          StartResponse, StatusResponse                         *)
(*   environment      AdvanceClock                                          *)
(* Methods of the class are operators from a world record                   *)
(* [app, dom, win] to the world record after the call.  The handlers are    *)
(* public methods of window.app and are taken to be callable in every       *)
(* state; only the start button's disabled flag gates its click.            *)
(*                                                                          *)
(* Spec is the controller.  SpecRender renders one result payload drawn     *)
(* at construction (showResult as a function of the payload).  SpecSave     *)
(* is static/supabase-client.js: the script's load and saveQSortResult.     *)
(* SpecLive follows one job to its end against a backend that holds the    *)
(* job's status, with polling ticks and responses delivered fairly.         *)
(***************************************************************************)
EXTENDS Integers, Sequences, FiniteSets, TLC

\* ------------------------------------------------------------------ bounds
\* Environment events over one run: start attempts of the user, status
\* requests issued by polling ticks, and advances of the wall clock.
MaxEvents == 4
\* Longest list of eigenvalues in a rendered result payload.
MaxFactors == 4
\* Calls of saveQSortResult over one run.
MaxSaves == 2
\* Status requests awaiting their response at one time, where polling is
\* followed without an end.
MaxOutstanding == 2
\* Elements of class "step" in the page, numbered 1..NumSteps by data-step.
NumSteps == 2

\* ------------------------------------------------------------- JS values
\* null.  Session ids, interval handles and timestamps are positive, so 0
\* stands for null both in truthiness tests and in (Date.now() - null).
NULL == 0

\* The empty string: also what a missing string field of a response reads as
\* in a truthiness test (undefined and '' are both falsy).
Absent == ""

VARIABLES
    app,            \* the QMethodApp instance: sessionId, pollInterval, startTime, timerInterval
    dom,            \* the page elements the controller reads and writes
    win,            \* the window: its active intervals
    pendingStarts,  \* POST /api/start requests awaiting their response
    inflight,       \* GET /api/status/<id> requests awaiting their response, in issue order
    sessions,       \* session ids the backend has handed out
    now,            \* Date.now()
    events,         \* start attempts, status requests and clock advances so far
    last,           \* the step taken last and its input (history, read by the properties only)
    store,          \* supabase-client.js: the client, its calls and the remote table
    backend         \* the body GET /api/status serves for the job, where the backend's state is followed

vars == <<app, dom, win, pendingStarts, inflight, sessions, now, events, last, store, backend>>

Sections == {"input", "progress", "result", "error"}

\* ---------------------------------------------------------------- inputs
\* Values typed into the two text inputs: empty, blank, and text with
\* blanks around it.
InputValues == { <<>>, <<" ", " ">>, <<" ", "x", " ">> }

RECURSIVE TrimLeft(_)
TrimLeft(s) == IF s # <<>> /\ Head(s) = " " THEN TrimLeft(Tail(s)) ELSE s

RECURSIVE TrimRight(_)
TrimRight(s) ==
    IF s # <<>> /\ s[Len(s)] = " " THEN TrimRight(SubSeq(s, 1, Len(s) - 1)) ELSE s

\* String.prototype.trim
Trim(s) == TrimRight(TrimLeft(s))

\* ------------------------------------------------------------- responses
\* Result payloads of a completed job (GET /api/status, field result).
\* Eigenvalues are kept in tenths (2.1 is 21), variance fractions in
\* thousandths (0.457 is 457, shown as 45.7%).  A missing string
\* field is Absent, a missing count is 0, a missing list has its has-flag
\* FALSE: each reads as falsy/undefined in the renderer's fallbacks.
PayloadFull ==
    [ defined      |-> TRUE,
      final_topic  |-> "remote work attitudes",
      topic        |-> "remote work",
      n_types      |-> 0,
      hasTypes     |-> TRUE,
      types        |-> << [type_name |-> "Pragmatist", bias |-> "positive"],
                          [type_name |-> Absent,       bias |-> "negative"] >>,
      hasStats     |-> TRUE,
      eigenvalues  |-> <<21, 13, 9, 4>>,
      cumulative_variance |-> <<457, 739>> ]

\* A payload with no type list and no factor statistics.
PayloadSparse ==
    [ defined      |-> TRUE,
      final_topic  |-> Absent,
      topic        |-> Absent,
      n_types      |-> 0,
      hasTypes     |-> FALSE,
      types        |-> <<>>,
      hasStats     |-> FALSE,
      eigenvalues  |-> <<>>,
      cumulative_variance |-> <<>> ]

\* No result field at all.
NoPayload == [PayloadSparse EXCEPT !.defined = FALSE]

Payloads == {PayloadFull, PayloadSparse}

\* A JSON body, or the rejection of the request.  One record shape serves the
\* start response ({session_id} or {error}) and the status response
\* ({status, progress, current_step, logs, result?, error?}).
Body(status, progress, current_step, logs, result, error, session_id) ==
    [ kind |-> "json", status |-> status, progress |-> progress,
      current_step |-> current_step, logs |-> logs, result |-> result,
      error |-> error, session_id |-> session_id ]

NoBody == Body(Absent, 0, <<>>, <<>>, NoPayload, Absent, NULL)

\* fetch() rejects, or response.json() rejects: the awaiting code sees an
\* exception whose message is `error`.
Rejected == [NoBody EXCEPT !.kind = "reject", !.error = "Failed to fetch"]

StatusRunning1 ==
    Body("running", 10, <<"Step", " ", "1", ":", "items">>, <<"started">>,
         NoPayload, Absent, NULL)

StatusRunning2 ==
    Body("running", 50, <<"now", "Step", " ", "2">>, <<"started", "sorting">>,
         NoPayload, Absent, NULL)

StatusCompleted(p) ==
    Body("completed", 100, <<"done">>, <<"started", "sorting", "done">>,
         p, Absent, NULL)

\* status "error" with the error string the backend supplies ...
StatusErrorMsg ==
    Body("error", 50, <<"now", "Step", " ", "2">>, <<"started", "failed">>,
         NoPayload, "model quota exceeded", NULL)

\* ... and without one.
StatusErrorNoMsg == [StatusErrorMsg EXCEPT !.error = Absent]

\* The body for a session the backend does not know: {error}.
StatusUnknown == [NoBody EXCEPT !.error = "session not found"]

\* What a status request for session `sid` can come back with.  A request
\* made with sessionId null asks for /api/status/null, which is no job.
StatusOutcomes(sid) ==
    IF sid = NULL
    THEN {Rejected, StatusUnknown}
    ELSE {Rejected, StatusRunning1, StatusRunning2, StatusErrorMsg, StatusErrorNoMsg}
         \cup {StatusCompleted(p) : p \in Payloads}

\* What a start request can come back with; `sid` is the id the backend
\* assigns if it accepts.
StartOutcomes(sid) ==
    { Rejected,
      [NoBody EXCEPT !.error = "invalid api key"],
      [NoBody EXCEPT !.session_id = sid] }

\* ------------------------------------------------------------- the window
\* setInterval: the handle is a positive integer not in use by an active
\* interval; the smallest such stands for any of them.
FreshHandle(w) ==
    CHOOSE h \in 1..(Cardinality(w.win.intervals) + 1) :
        \A t \in w.win.intervals : t.id # h

setInterval(w, kind) ==
    [w EXCEPT !.win.intervals = @ \cup {[id |-> FreshHandle(w), kind |-> kind]}]

clearInterval(w, h) ==
    [w EXCEPT !.win.intervals = {t \in @ : t.id # h}]

\* --------------------------------------------------- QMethodApp's methods
\* showSection without the four hide calls (a variant the properties must
\* tell from the code).
showSectionNoHide(w, section) ==
    [w EXCEPT !.dom.hidden =
        [s \in Sections |-> IF s = section THEN FALSE ELSE w.dom.hidden[s]]]

\* showSection(section): hide all four sections, then unhide the named one.
showSection(w, section) ==
    [w EXCEPT !.dom.hidden = [s \in Sections |-> s # section]]

\* showError(message)
showError(w, message) ==
    [showSection(w, "error") EXCEPT !.dom.errorMessage = message]

\* startPolling(): pollInterval = setInterval(() => this.checkStatus(), 2000)
startPolling(w) ==
    [setInterval(w, "poll") EXCEPT !.app.pollInterval = FreshHandle(w)]

\* startTimer(): timerInterval = setInterval(<elapsed-time callback>, 1000)
startTimer(w) ==
    [setInterval(w, "timer") EXCEPT !.app.timerInterval = FreshHandle(w)]

\* stopTimer()
stopTimer(w) ==
    IF w.app.timerInterval # NULL
    THEN [clearInterval(w, w.app.timerInterval) EXCEPT !.app.timerInterval = NULL]
    ELSE w

\* stopPolling(): clears the polling interval, then stopTimer()
stopPolling(w) ==
    stopTimer(IF w.app.pollInterval # NULL
              THEN [clearInterval(w, w.app.pollInterval) EXCEPT !.app.pollInterval = NULL]
              ELSE w)

\* The digit after "Step " in a step label: data.current_step.match(/Step (\d)/),
\* first match, 0 when there is none.
Digits == {"0", "1", "2", "3", "4", "5", "6", "7", "8", "9"}

DigitValue(d) == CHOOSE n \in 0..9 : <<"0","1","2","3","4","5","6","7","8","9">>[n + 1] = d

StepMatches(label) ==
    { i \in 1..(Len(label) - 2) :
        label[i] = "Step" /\ label[i + 1] = " " /\ label[i + 2] \in Digits }

currentStepNum(label) ==
    IF StepMatches(label) = {}
    THEN 0
    ELSE LET i == CHOOSE j \in StepMatches(label) : \A k \in StepMatches(label) : j <= k
         IN  DigitValue(label[i + 2])

\* The class each .step element gets from updateProgress.
stepClassFor(stepNum, current) ==
    IF stepNum < current THEN "completed"
    ELSE IF stepNum = current THEN "active"
    ELSE "none"

\* logs.map(log => `<div class="log-entry">${log}</div>`).join('')
logEntries(logs) == [i \in 1..Len(logs) |-> <<"log-entry", logs[i]>>]

\* updateProgress with the log lines appended to those shown, not replacing
\* them (a variant the properties must tell from the code).
updateProgressAppend(w, data) ==
    [w EXCEPT !.dom.progressFill = data.progress,
              !.dom.progressText = data.progress,
              !.dom.stepText     = data.current_step,
              !.dom.stepClass    =
                  [n \in 1..NumSteps |-> stepClassFor(n, currentStepNum(data.current_step))],
              !.dom.logs         = @ \o logEntries(data.logs)]

\* updateProgress(data)
updateProgress(w, data) ==
    [w EXCEPT !.dom.progressFill = data.progress,
              !.dom.progressText = data.progress,
              !.dom.stepText     = data.current_step,
              !.dom.stepClass    =
                  [n \in 1..NumSteps |-> stepClassFor(n, currentStepNum(data.current_step))],
              !.dom.logs         = logEntries(data.logs)]

\* The rows of the factor table: eigenvalues.map((ev, i) => ev < 1.0 ? '' : row),
\* each row with its 1-based position in the list.  Eigenvalues are in tenths.
\* One row: Factor ${i + 1}, the eigenvalue, and
\* factorStats.cumulative_variance?.[i] || 0 (0 for a missing list or index).
factorRow(eigenvalues, cumulative, n) ==
    [ factor     |-> n,
      eigenvalue |-> eigenvalues[n],
      cumulative |-> IF n <= Len(cumulative) THEN cumulative[n] ELSE 0 ]

\* The rows with the Kaiser rule off by the boundary: entries equal to 1.0
\* dropped too (a variant the properties must tell from the code).
RECURSIVE factorRowsStrict(_, _, _)
factorRowsStrict(eigenvalues, cumulative, n) ==
    IF n = 0 THEN <<>>
    ELSE IF eigenvalues[n] <= 10
         THEN factorRowsStrict(eigenvalues, cumulative, n - 1)
         ELSE Append(factorRowsStrict(eigenvalues, cumulative, n - 1),
                     factorRow(eigenvalues, cumulative, n))

RECURSIVE factorRows(_, _, _)
factorRows(eigenvalues, cumulative, n) ==
    IF n = 0 THEN <<>>
    ELSE IF eigenvalues[n] < 10
         THEN factorRows(eigenvalues, cumulative, n - 1)
         ELSE Append(factorRows(eigenvalues, cumulative, n - 1),
                     factorRow(eigenvalues, cumulative, n))

\* The summary block showResult writes to resultSummary.
resultSummaryOf(result) ==
    [ topic      |-> IF result.final_topic # Absent THEN result.final_topic
                     ELSE IF result.topic # Absent THEN result.topic
                     ELSE "N/A",
      typeCount  |-> IF result.n_types # 0 THEN result.n_types
                     ELSE IF result.hasTypes THEN Len(result.types)
                     ELSE 0,
      factorRows |-> IF result.hasStats
                     THEN factorRows(result.eigenvalues, result.cumulative_variance,
                                     Len(result.eigenvalues))
                     ELSE <<>> ]

\* One card per type: result.types.map((type, index) => ...).
typeCards(types) ==
    [ i \in 1..Len(types) |->
        [ named    |-> types[i].type_name # Absent,
          title    |-> IF types[i].type_name # Absent THEN types[i].type_name ELSE "type",
          index    |-> i,
          positive |-> types[i].bias = "positive" ] ]

NoSummary == [topic |-> Absent, typeCount |-> 0, factorRows |-> <<>>]

\* showResult(result).  `result.factor_stats` throws when result is undefined
\* and `result.types.map` throws when the type list is missing; the exception
\* leaves the method where it is raised, with what was written before it kept.
showResult(w, result) ==
    LET shown   == showSection(w, "result")
        summary == [shown EXCEPT !.dom.resultSummary = resultSummaryOf(result)]
    IN  IF ~result.defined THEN shown
        ELSE IF ~result.hasTypes THEN summary
        ELSE [summary EXCEPT !.dom.typesContainer = typeCards(result.types)]

\* Whether showResult(result) raises: `result.factor_stats` (line 178) on an
\* undefined result, `result.types.map` (line 283) on a missing type list.
showResultThrows(result) == ~result.defined \/ ~result.hasTypes

\* The text reset() and the page's markup give the step label.
StepTextIdle == <<"preparing">>

\* Milliseconds per second and seconds per minute in the elapsed-time callback.
MsPerSecond == 1000
SecondsPerMinute == 60

\* The text the elapsed-time callback writes: `${mins}:${secs padded to 2}`,
\* as minutes and the two digits of the seconds.
ElapsedText(elapsed) ==
    << elapsed \div SecondsPerMinute,
       (elapsed % SecondsPerMinute) \div 10,
       (elapsed % SecondsPerMinute) % 10 >>

\* reset() with the start button toggled, not enabled (a variant the
\* properties must tell from the code).
resetToggle(w) ==
    LET stopped == stopPolling(w)
        cleared == [stopped EXCEPT
                      !.app.sessionId        = NULL,
                      !.app.startTime        = NULL,
                      !.dom.topicValue       = <<>>,
                      !.dom.startBtnDisabled = ~@,
                      !.dom.startBtnLabel    = "start",
                      !.dom.progressFill     = 0,
                      !.dom.progressText     = 0,
                      !.dom.stepText         = StepTextIdle,
                      !.dom.elapsedTime      = ElapsedText(0),
                      !.dom.logs             = <<>>,
                      !.dom.stepClass        = [n \in 1..NumSteps |-> "none"]]
    IN  showSection(cleared, "input")

\* reset()
reset(w) ==
    LET stopped == stopPolling(w)
        cleared == [stopped EXCEPT
                      !.app.sessionId        = NULL,
                      !.app.startTime        = NULL,
                      !.dom.topicValue       = <<>>,
                      !.dom.startBtnDisabled = FALSE,
                      !.dom.startBtnLabel    = "start",
                      !.dom.progressFill     = 0,
                      !.dom.progressText     = 0,
                      !.dom.stepText         = StepTextIdle,
                      !.dom.elapsedTime      = ElapsedText(0),
                      !.dom.logs             = <<>>,
                      !.dom.stepClass        = [n \in 1..NumSteps |-> "none"]]
    IN  showSection(cleared, "input")

\* The input test without trim() (a variant the properties must tell from
\* the code).
startAnalysisValidNoTrim(w) ==
    w.dom.apiKeyValue # <<>> /\ w.dom.topicValue # <<>>

\* startAnalysis(), lines 50-63: both inputs non-empty once trimmed.
startAnalysisValid(w) ==
    Trim(w.dom.apiKeyValue) # <<>> /\ Trim(w.dom.topicValue) # <<>>

\* startAnalysis(), lines 65-66: up to the await of fetch('/api/start').
startAnalysisSubmit(w) ==
    [w EXCEPT !.dom.startBtnDisabled = TRUE, !.dom.startBtnLabel = "starting"]

\* The continuation without `if (data.error) throw` (a variant the
\* properties must tell from the code).
startAnalysisResumeNoErrorCheck(w, out, t) ==
    IF out.kind = "reject"
    THEN showError(w, out.error)
    ELSE startTimer(startPolling(showSection(
             [w EXCEPT !.app.sessionId = out.session_id, !.app.startTime = t],
             "progress")))

\* startAnalysis(), lines 75-89: from the response on; `t` is Date.now().
startAnalysisResume(w, out, t) ==
    IF out.kind = "reject" \/ out.error # Absent
    THEN showError(w, out.error)
    ELSE startTimer(startPolling(showSection(
             [w EXCEPT !.app.sessionId = out.session_id, !.app.startTime = t],
             "progress")))

\* The message showError gets when a status "error" carries no error string.
FallbackMessage == "unknown error"

\* A catch block that gives up on the job (a variant the properties must
\* tell from the code).
checkStatusCatchStops(w, message) == showError(stopPolling(w), message)

\* checkStatus(), lines 139-141: the catch block logs and does nothing else.
checkStatusCatch(w, message) == w

\* checkStatus(), lines 123-141: from the response on.
checkStatusResume(w, out) ==
    IF out.kind = "reject" \/ out.error # Absent
    THEN checkStatusCatch(w, out.error)
    ELSE LET updated == updateProgress(w, out)
         IN  IF out.status = "completed"
             THEN showResult(stopPolling(updated), out.result)
             ELSE IF out.status = "error"
             THEN showError(stopPolling(updated),
                            IF out.error # Absent THEN out.error ELSE FallbackMessage)
             ELSE updated

\* Whether checkStatusResume takes a terminal branch (completed or error).
isTerminal(out) ==
    out.kind = "json" /\ out.error = Absent /\ out.status \in {"completed", "error"}

\* The elapsed-time callback of startTimer(); `t` is Date.now().
timerCallback(w, t) ==
    [w EXCEPT !.dom.elapsedTime = ElapsedText((t - w.app.startTime) \div MsPerSecond)]

\* ------------------------------------------------------------ the state
\* Date.now() when the page loads, and the step of the clock, in ms.
Epoch == 90000
ClockStep == 1500

W == [app |-> app, dom |-> dom, win |-> win]

Set(w) == app' = w.app /\ dom' = w.dom /\ win' = w.win

\* A status request in flight: the session id in its URL, and whether a
\* reset or a terminal transition has happened since it was issued
\* (history, read by the properties only).
Request(sid) == [sid |-> sid, cancelled |-> FALSE]

Cancel(reqs) == [i \in 1..Len(reqs) |-> [reqs[i] EXCEPT !.cancelled = TRUE]]

Remove(reqs, i) == SubSeq(reqs, 1, i - 1) \o SubSeq(reqs, i + 1, Len(reqs))

\* The handler segment that ran last, with what it was given.  ticked
\* records that an elapsed-time tick has written the display since the
\* progress section was last put up (no reset or terminal transition since).
Hist(op, out, req, ticked) ==
    [op |-> op, out |-> out, req |-> req, ticked |-> ticked]

Step(op, out, req) ==
    Hist(op, out, req, ~dom'.hidden["progress"] /\ (op = "timerTick" \/ last.ticked))

\* ---------------------------------------------------- supabase-client.js
\* What supabase.createClient() returns.
Client == 1

\* The script as loaded: supabaseClient is the client when the CDN library
\* defined `supabase`, and stays null (with an error logged) when it did not.
ScriptLoaded(hasLibrary) ==
    [ supabaseClient |-> IF hasLibrary THEN Client ELSE NULL,
      console        |-> IF hasLibrary THEN <<"initialized">> ELSE <<"library not found">>,
      awaiting       |-> <<>>,
      table          |-> <<>>,
      saves          |-> 0,
      outcome        |-> "none" ]

\* Arguments of saveQSortResult: objects with the four fields it reads and
\* one it does not.
SaveInputs ==
    [ respondent_name     : {Absent, "kim"},
      sort_data           : {<<>>, <<1, 0 - 1>>},
      duration            : {95},
      interview_responses : {<<>>, <<"because">>},
      draft               : {TRUE} ]

\* The row built from the destructured argument.
Row(data) ==
    [ respondent_name     |-> data.respondent_name,
      sort_data           |-> data.sort_data,
      duration            |-> data.duration,
      interview_responses |-> data.interview_responses ]

\* saveQSortResult(data) up to its await: supabaseClient.from(...).insert([row]).
\* Reading `.from` of null raises TypeError, which rejects the promise the
\* async function returned.
saveQSortResultCall(st, data) ==
    IF st.supabaseClient = NULL
    THEN [st EXCEPT !.saves = @ + 1, !.outcome = "TypeError"]
    ELSE [st EXCEPT !.saves = @ + 1, !.awaiting = Append(@, Row(data))]

\* saveQSortResult(data) after its await, with { data: result, error }.
saveQSortResultResume(st, failed) ==
    IF failed
    THEN [st EXCEPT !.awaiting = Tail(@),
                    !.console  = Append(@, "save failed"),
                    !.outcome  = "null"]
    ELSE [st EXCEPT !.awaiting = Tail(@),
                    !.table    = Append(@, Head(st.awaiting)),
                    !.console  = Append(@, "save succeeded"),
                    !.outcome  = "result"]

\* The constructor, over the page as its markup shows it: the input section
\* visible, the other three hidden, every field in its reset state.
Constructed ==
    /\ app = [sessionId |-> NULL, pollInterval |-> NULL,
              startTime |-> NULL, timerInterval |-> NULL]
    /\ dom = [ hidden           |-> [s \in Sections |-> s # "input"],
               apiKeyValue      |-> <<>>,
               topicValue       |-> <<>>,
               startBtnDisabled |-> FALSE,
               startBtnLabel    |-> "start",
               progressFill     |-> 0,
               progressText     |-> 0,
               stepText         |-> StepTextIdle,
               stepClass        |-> [n \in 1..NumSteps |-> "none"],
               elapsedTime      |-> ElapsedText(0),
               logs             |-> <<>>,
               resultSummary    |-> NoSummary,
               typesContainer   |-> <<>>,
               errorMessage     |-> Absent ]
    /\ win = [intervals |-> {}]
    /\ pendingStarts = 0
    /\ inflight = <<>>
    /\ sessions = 0
    /\ now = Epoch
    /\ events = 0

Init ==
    /\ Constructed
    /\ store = ScriptLoaded(TRUE)
    /\ backend = NoBody
    /\ last = Hist("init", NoBody, Request(NULL), FALSE)

\* ----------------------------------------------------------- user events
\* The two text inputs are read by startAnalysis() alone, so what the user
\* has typed since the last start attempt is set when the next one begins.
typed(w, apiKey, topic) ==
    [w EXCEPT !.dom.apiKeyValue = apiKey, !.dom.topicValue = topic]

\* startAnalysis() up to its await: rejected inputs return at once; accepted
\* inputs disable the button and issue POST /api/start.
\* `op` names the step in the history variable.
startAnalysis(w, op) ==
    /\ events < MaxEvents
    /\ events' = events + 1
    /\ IF startAnalysisValid(w)
       THEN /\ Set(startAnalysisSubmit(w))
            /\ pendingStarts' = pendingStarts + 1
            /\ last' = Step(op, NoBody, Request(NULL))
            /\ UNCHANGED <<store, backend, inflight, sessions, now>>
       ELSE /\ Set(w)
            /\ last' = Step(op, NoBody, Request(NULL))
            /\ UNCHANGED <<store, backend, pendingStarts, inflight, sessions, now>>

\* A click on the start button; a disabled button dispatches no click.
ClickStart ==
    /\ ~dom.startBtnDisabled
    /\ \E apiKey \in InputValues, topic \in InputValues :
           startAnalysis(typed(W, apiKey, topic), "start")

\* Ctrl+Enter in the topic input.
CtrlEnter ==
    \E apiKey \in InputValues, topic \in InputValues :
        startAnalysis(typed(W, apiKey, topic), "start")

\* A click on the restart or the retry button: reset().
Reset ==
    /\ Set(reset(W))
    /\ inflight' = Cancel(inflight)
    /\ last' = Step("reset", NoBody, Request(NULL))
    /\ UNCHANGED <<store, backend, pendingStarts, sessions, now, events>>

\* ------------------------------------------------------- timer callbacks
\* A polling interval fires: checkStatus() up to its await issues
\* GET /api/status/<this.sessionId>.
PollTick ==
    \E t \in win.intervals :
        /\ t.kind = "poll"
        /\ events < MaxEvents
        /\ events' = events + 1
        /\ inflight' = Append(inflight, Request(app.sessionId))
        /\ UNCHANGED <<store, backend, app, dom, win, pendingStarts, sessions, now>>
        /\ last' = Step("pollTick", NoBody, Request(app.sessionId))

\* An elapsed-time interval fires.
TimerTick ==
    \E t \in win.intervals :
        /\ t.kind = "timer"
        /\ Set(timerCallback(W, now))
        /\ last' = Step("timerTick", NoBody, Request(NULL))
        /\ UNCHANGED <<store, backend, pendingStarts, inflight, sessions, now, events>>

\* --------------------------------------------------------------- network
\* The response to a POST /api/start arrives.
StartResponse ==
    /\ pendingStarts > 0
    /\ \E out \in StartOutcomes(sessions + 1) :
        /\ Set(startAnalysisResume(W, out, now))
        /\ sessions' = IF out.session_id # NULL THEN sessions + 1 ELSE sessions
        /\ last' = Step("startResponse", out, Request(NULL))
    /\ pendingStarts' = pendingStarts - 1
    /\ UNCHANGED <<store, backend, inflight, now, events>>

\* The response to a status request arrives; responses may overtake each other.
StatusResponse ==
    \E i \in 1..Len(inflight) :
        \E out \in StatusOutcomes(inflight[i].sid) :
            /\ Set(checkStatusResume(W, out))
            /\ inflight' = IF isTerminal(out)
                           THEN Cancel(Remove(inflight, i))
                           ELSE Remove(inflight, i)
            /\ last' = Step("statusResponse", out, inflight[i])
            /\ UNCHANGED <<store, backend, pendingStarts, sessions, now, events>>

\* ----------------------------------------------------------- environment
AdvanceClock ==
    /\ events < MaxEvents
    /\ now' = now + ClockStep
    /\ events' = events + 1
    /\ UNCHANGED <<store, backend, app, dom, win, pendingStarts, inflight, sessions>>
    /\ last' = Step("clock", NoBody, Request(NULL))

Next ==
    \/ ClickStart
    \/ CtrlEnter
    \/ Reset
    \/ PollTick
    \/ TimerTick
    \/ StartResponse
    \/ StatusResponse
    \/ AdvanceClock

Spec == Init /\ [][Next]_vars

\* ------------------------------------------------- rendering of a result
\* showResult() as a function of the payload: the payload is drawn when the
\* page is constructed and rendered once.
EigenSamples == {4, 9, 10, 13, 21}
CumulativeSamples == <<457, 739, 886, 950, 1000>>

EigenLists == UNION { [1..n -> EigenSamples] : n \in 0..MaxFactors }

RenderPayloads ==
    { [PayloadFull EXCEPT !.eigenvalues = e,
                          !.cumulative_variance = SubSeq(CumulativeSamples, 1, k)] :
        e \in EigenLists, k \in 0..MaxFactors }

InitRender ==
    /\ Constructed
    /\ store = ScriptLoaded(TRUE)
    /\ backend = NoBody
    /\ \E p \in RenderPayloads :
         /\ Len(p.cumulative_variance) <= Len(p.eigenvalues)
         /\ last = Hist("init", StatusCompleted(p), Request(NULL), FALSE)

RenderResult ==
    /\ last.op = "init"
    /\ Set(showResult(W, last.out.result))
    /\ last' = Step("render", last.out, last.req)
    /\ UNCHANGED <<store, backend, pendingStarts, inflight, sessions, now, events>>

NextRender == RenderResult

SpecRender == InitRender /\ [][NextRender]_vars

\* ------------------------------------------------ saving a Q-sort result
\* supabase-client.js on a page of its own: the script loads with or without
\* the CDN library, and saveQSortResult is called with any argument.
InitSave ==
    /\ Constructed
    /\ \E hasLibrary \in BOOLEAN : store = ScriptLoaded(hasLibrary)
    /\ backend = NoBody
    /\ last = Hist("init", NoBody, Request(NULL), FALSE)

SaveCall ==
    /\ store.saves < MaxSaves
    /\ \E data \in SaveInputs : store' = saveQSortResultCall(store, data)
    /\ UNCHANGED <<app, dom, win, pendingStarts, inflight, sessions, now, events, backend>>
    /\ last' = Step("saveCall", NoBody, Request(NULL))

\* The insert answers: { error } when the remote store refused it.
SaveResponse ==
    /\ store.awaiting # <<>>
    /\ \E failed \in BOOLEAN : store' = saveQSortResultResume(store, failed)
    /\ UNCHANGED <<app, dom, win, pendingStarts, inflight, sessions, now, events, backend>>
    /\ last' = Step("saveResponse", NoBody, Request(NULL))

NextSave == SaveCall \/ SaveResponse

SpecSave == InitSave /\ [][NextSave]_vars

\* ------------------------------------------------- polling to the end
\* One job followed to its end: the backend holds the job's status, every
\* status request is answered with the status held when the answer is sent,
\* no request fails, and the user neither resets nor submits by Ctrl+Enter.
\* Polling ticks are not counted; at most MaxOutstanding requests wait.
InitLive == Init

\* The response to POST /api/start; an accepted job starts as running.
LiveStartResponse ==
    /\ pendingStarts > 0
    /\ \E out \in StartOutcomes(sessions + 1) :
        /\ Set(startAnalysisResume(W, out, now))
        /\ sessions' = IF out.session_id # NULL THEN sessions + 1 ELSE sessions
        /\ backend' = IF out.kind = "json" /\ out.error = Absent
                       THEN StatusRunning1 ELSE backend
        /\ last' = Step("startResponse", out, Request(NULL))
    /\ pendingStarts' = pendingStarts - 1
    /\ UNCHANGED <<store, inflight, now, events>>

\* The job moves on at the backend, or ends: the status then stays.
BackendMoves ==
    /\ backend.status = "running"
    /\ backend' \in {StatusRunning2, StatusErrorMsg, StatusErrorNoMsg}
                      \cup {StatusCompleted(p) : p \in Payloads}
    /\ backend' # backend
    /\ UNCHANGED <<app, dom, win, pendingStarts, inflight, sessions, now, events, store>>
    /\ last' = Step("backend", NoBody, Request(NULL))

\* A polling interval fires: GET /api/status/<this.sessionId>.
LivePollTick ==
    \E t \in win.intervals :
        /\ t.kind = "poll"
        /\ Len(inflight) < MaxOutstanding
        /\ inflight' = Append(inflight, Request(app.sessionId))
        /\ UNCHANGED <<store, backend, app, dom, win, pendingStarts, sessions, now, events>>
        /\ last' = Step("pollTick", NoBody, Request(app.sessionId))

\* A status request is answered with the status the backend holds.
LiveStatusResponse ==
    \E i \in 1..Len(inflight) :
        /\ Set(checkStatusResume(W, backend))
        /\ inflight' = IF isTerminal(backend)
                        THEN Cancel(Remove(inflight, i))
                        ELSE Remove(inflight, i)
        /\ last' = Step("statusResponse", backend, inflight[i])
        /\ UNCHANGED <<store, backend, pendingStarts, sessions, now, events>>

NextLive ==
    \/ ClickStart
    \/ LiveStartResponse
    \/ BackendMoves
    \/ LivePollTick
    \/ LiveStatusResponse
    \/ TimerTick
    \/ AdvanceClock

\* setInterval keeps firing the polling callback and every fetch is answered.
SpecLive ==
    /\ InitLive
    /\ [][NextLive]_vars
    /\ WF_vars(LivePollTick)
    /\ WF_vars(LiveStatusResponse)
    /\ WF_vars(LiveStartResponse)

\* ===================================================================
\* Properties
\* ===================================================================
visible(section) == ~dom.hidden[section]

pollTimers == {t \in win.intervals : t.kind = "poll"}

elapsedTimers == {t \in win.intervals : t.kind = "timer"}

\* The seconds an m:ss display stands for.
Seconds(text) == text[1] * SecondsPerMinute + text[2] * 10 + text[3]

\* A string of blanks only (the empty string included).
Blank(v) == \A i \in 1..Len(v) : v[i] = " "

\* The step just taken delivered a status response / a start response.
\* (To be read in an action formula, of the state after the step.)
statusDelivered == last'.op = "statusResponse"
startDelivered == last'.op = "startResponse"

\* -------------------------------------------------------------------
\* C1: in every reachable state at most one polling interval and at most
\* one elapsed-time interval are scheduled (a start that succeeds while
\* timers are scheduled would have to cancel the old ones first).
\* Violated: startAnalysis() has no guard against a second call before the
\* first response, and startPolling()/startTimer() overwrite the handles
\* without clearing them.
C1_AtMostOneTimerOfEachKind ==
    /\ Cardinality(pollTimers) <= 1
    /\ Cardinality(elapsedTimers) <= 1

\* -------------------------------------------------------------------
\* C2: when the progress section is shown and a status response has status
\* "error", both timer handles are cleared, the error section is shown, and
\* the message is the response's error string when it has one and the
\* fallback message otherwise.
\* Violated: a body with an error string is thrown at line 126 before the
\* status is looked at, and the catch block only logs.
C2_StatusErrorStopsAndShowsMessage ==
    [][ ( /\ statusDelivered
          /\ last'.out.kind = "json"
          /\ last'.out.status = "error"
          /\ visible("progress") )
        => ( /\ app'.pollInterval = NULL
             /\ app'.timerInterval = NULL
             /\ ~dom'.hidden["error"]
             /\ dom'.errorMessage = IF last'.out.error # Absent
                                    THEN last'.out.error
                                    ELSE FallbackMessage ) ]_vars

\* -------------------------------------------------------------------
\* C3: a status response whose request was in flight over a reset() or a
\* terminal transition, or whose session id is not the current one, changes
\* nothing: not the sections, the progress, the step label, the logs or the
\* timers.
\* Violated: checkStatus() applies every response it gets.
C3_StaleResponseChangesNothing ==
    [][ ( /\ statusDelivered
          /\ (last'.req.cancelled \/ last'.req.sid # app.sessionId) )
        => ( /\ app' = app
             /\ win' = win
             /\ dom'.hidden = dom.hidden
             /\ dom'.progressFill = dom.progressFill
             /\ dom'.progressText = dom.progressText
             /\ dom'.stepText = dom.stepText
             /\ dom'.stepClass = dom.stepClass
             /\ dom'.logs = dom.logs ) ]_vars

\* -------------------------------------------------------------------
\* C4: right after a successful start exactly one polling interval and
\* exactly one elapsed-time interval are scheduled; right after reset() and
\* right after a status response reporting completed or error none is.
\* Violated: by the intervals C1 shows leaked, and by the error response
\* C2 shows swallowed.
C4_TimerCountsAfterStartResetTerminal ==
    /\ (last.op = "startResponse" /\ last.out.kind = "json" /\ last.out.error = Absent)
          => (Cardinality(pollTimers) = 1 /\ Cardinality(elapsedTimers) = 1)
    /\ (last.op = "reset") => (win.intervals = {})
    /\ (last.op = "statusResponse" /\ last.out.kind = "json"
            /\ last.out.status \in {"completed", "error"})
          => (win.intervals = {})

\* -------------------------------------------------------------------
\* C5: a start attempt with a blank topic or a blank credential issues no
\* request, creates no timer and leaves the sections, the start button,
\* sessionId and startTime as they were.
C5_BlankInputStartsNothing ==
    [][ ( /\ last'.op = "start"
          /\ (Blank(dom'.apiKeyValue) \/ Blank(dom'.topicValue)) )
        => ( /\ pendingStarts' = pendingStarts
             /\ inflight' = inflight
             /\ win' = win
             /\ app' = app
             /\ dom'.hidden = dom.hidden
             /\ dom'.startBtnDisabled = dom.startBtnDisabled ) ]_vars

\* A start attempt with a whitespace-only topic and a usable credential was
\* made while a job was running.
C5_Witness ==
    /\ last.op = "start"
    /\ dom.topicValue # <<>> /\ Blank(dom.topicValue)
    /\ ~Blank(dom.apiKeyValue)
    /\ visible("progress")
    /\ app.pollInterval # NULL

\* -------------------------------------------------------------------
\* C6: a status request that fails at the network level while the progress
\* section is shown changes neither the controller nor the page nor the
\* intervals: the polling interval stays scheduled, and every tick of a
\* polling interval issues a status request for the current session id.
C6_FailedPollChangesNothing ==
    [][ /\ ( /\ statusDelivered
             /\ last'.out.kind = "reject"
             /\ visible("progress") )
           => ( /\ app' = app
                /\ dom' = dom
                /\ win' = win
                /\ \E t \in pollTimers' : t.id = app'.pollInterval
                /\ \E t \in elapsedTimers' : t.id = app'.timerInterval )
        /\ (last'.op = "pollTick")
           => (inflight' = Append(inflight, Request(app.sessionId))) ]_vars

\* A status request has failed while a job was running: the progress
\* section is shown and the polling interval is scheduled.
C6_Witness ==
    /\ last.op = "statusResponse"
    /\ last.out.kind = "reject"
    /\ last.req.sid = app.sessionId
    /\ visible("progress")
    /\ \E t \in pollTimers : t.id = app.pollInterval
    /\ \E t \in elapsedTimers : t.id = app.timerInterval

\* -------------------------------------------------------------------
\* C7: a status response with status "running" that arrives while the
\* progress section is shown leaves it shown and both timers scheduled, and
\* the progress, the step label and the log lines shown are those of the
\* response (the logs replaced, not appended to).
C7_RunningResponseReplacesProgress ==
    [][ ( /\ statusDelivered
          /\ last'.out.kind = "json"
          /\ last'.out.status = "running"
          /\ visible("progress") )
        => ( /\ ~dom'.hidden["progress"]
             /\ app' = app
             /\ win' = win
             /\ \E t \in pollTimers' : t.id = app'.pollInterval
             /\ \E t \in elapsedTimers' : t.id = app'.timerInterval
             /\ dom'.progressFill = last'.out.progress
             /\ dom'.progressText = last'.out.progress
             /\ dom'.stepText = last'.out.current_step
             /\ Len(dom'.logs) = Len(last'.out.logs)
             /\ \A i \in 1..Len(last'.out.logs) :
                    dom'.logs[i] = <<"log-entry", last'.out.logs[i]>> ) ]_vars

\* A running response has been applied while a job was running, after
\* two status requests had been issued.
C7_Witness ==
    /\ last.op = "statusResponse"
    /\ last.out = StatusRunning1
    /\ last.req.sid = app.sessionId
    /\ visible("progress")
    /\ dom.progressText = 10
    /\ dom.logs = <<(<<"log-entry", "started">>)>>
    /\ inflight = <<>>
    /\ events >= 3

\* -------------------------------------------------------------------
\* C8: a status response with status "completed" that arrives while the
\* progress section is shown clears both timer handles, shows the result
\* section and renders that response's result; and while the result
\* section is shown no status request is issued.
\* Violated: an interval leaked as in C1 keeps calling checkStatus().
C8_CompletedStopsPolling ==
    [][ /\ ( /\ statusDelivered
             /\ last'.out.kind = "json"
             /\ last'.out.status = "completed"
             /\ visible("progress") )
           => ( /\ app'.pollInterval = NULL
                /\ app'.timerInterval = NULL
                /\ ~dom'.hidden["result"]
                /\ dom'.resultSummary = resultSummaryOf(last'.out.result) )
        /\ visible("result") => (Len(inflight') <= Len(inflight)) ]_vars

\* -------------------------------------------------------------------
\* C9: a failed submission (the request rejected, or a body with an error
\* field) shows the error section with that message and does nothing else:
\* the controller's fields, the intervals, the status requests in flight
\* and the backend's sessions are as before.
C9_FailedSubmissionOnlyShowsError ==
    [][ ( /\ startDelivered
          /\ (last'.out.kind = "reject" \/ last'.out.error # Absent) )
        => ( /\ ~dom'.hidden["error"]
             /\ dom'.errorMessage = last'.out.error
             /\ app' = app
             /\ win' = win
             /\ inflight' = inflight
             /\ sessions' = sessions ) ]_vars

\* A submission came back with an error body; nothing was started.
C9_Witness ==
    /\ last.op = "startResponse"
    /\ last.out.kind = "json"
    /\ last.out.error = "invalid api key"
    /\ visible("error")
    /\ dom.errorMessage = "invalid api key"
    /\ app.sessionId = NULL
    /\ app.startTime = NULL
    /\ win.intervals = {}

\* -------------------------------------------------------------------
\* C10: right after reset() the controller is idle: the input section is
\* shown, sessionId and startTime are null, the progress is 0, the logs
\* are empty, no step is marked, the start button is enabled, both timer
\* handles are null and no interval is scheduled.
\* Violated: reset() clears the two handles it holds; an interval leaked
\* as in C1 stays scheduled.
C10_ResetEndsIdle ==
    (last.op = "reset") =>
        ( /\ visible("input")
          /\ app.sessionId = NULL
          /\ app.startTime = NULL
          /\ dom.progressFill = 0
          /\ dom.progressText = 0
          /\ dom.logs = <<>>
          /\ \A n \in 1..NumSteps : dom.stepClass[n] = "none"
          /\ ~dom.startBtnDisabled
          /\ app.pollInterval = NULL
          /\ app.timerInterval = NULL
          /\ win.intervals = {} )

\* -------------------------------------------------------------------
\* C11: reset() is idempotent: in every reachable state, reset() called
\* twice gives the controller, the page and the intervals that reset()
\* called once gives.
C11_ResetIdempotent == reset(reset(W)) = reset(W)

\* reset() has run while an interval it does not hold was scheduled: a
\* second call must leave that interval and everything else alone.
C11_Witness ==
    /\ last.op = "reset"
    /\ pollTimers # {}
    /\ app.pollInterval = NULL
    /\ reset(W) = W

\* -------------------------------------------------------------------
\* C12: while the result section or the error section is shown, no timer
\* tick and no network response changes the sections or the progress
\* (bar, step label, logs); the sections change only by reset().
\* Violated: a status response still in flight is applied after the
\* terminal one (no guard, as in C3), and the response to a second,
\* overlapping submission (as in C1) is applied after the error is shown.
C12_TerminalUntilReset ==
    [][ (visible("result") \/ visible("error"))
        => ( /\ (last'.op \in {"timerTick", "pollTick", "startResponse", "statusResponse"})
                => ( /\ dom'.hidden = dom.hidden
                     /\ dom'.progressFill = dom.progressFill
                     /\ dom'.progressText = dom.progressText
                     /\ dom'.stepText = dom.stepText
                     /\ dom'.logs = dom.logs )
             /\ (dom'.hidden # dom.hidden)
                => (last'.op = "reset" /\ ~dom'.hidden["input"]) ) ]_vars

\* -------------------------------------------------------------------
\* C13: rendering the result of a completed job never raises, and a
\* payload without a type list gives an empty type section.
\* Violated: showResult() calls result.types.map with no fallback; the
\* exception ends the method after the summary was written, checkStatus()
\* logs it, and the type section keeps what it held.
C13_RenderNeverFails ==
    ( /\ last.op = "statusResponse"
      /\ last.out.kind = "json"
      /\ last.out.error = Absent
      /\ last.out.status = "completed" )
    => ( /\ ~showResultThrows(last.out.result)
         /\ ~last.out.result.hasTypes => dom.typesContainer = <<>> )

\* -------------------------------------------------------------------
\* C14: for every eigenvalue list the factor table has one row for
\* exactly the entries that are >= 1.0, in list order, each labelled with
\* its 1-based position in the list and carrying that entry's value, with
\* the cumulative variance of that position, or 0 when the payload has
\* none for it; [2.1, 1.3, 0.9, 0.4] gives Factor 1 and Factor 2.
C14_FactorRows ==
    last.op = "render" =>
        LET E == last.out.result.eigenvalues
            C == last.out.result.cumulative_variance
            R == dom.resultSummary.factorRows
        IN  /\ Len(R) = Cardinality({i \in 1..Len(E) : E[i] >= 10})
            /\ \A k \in 1..Len(R) :
                 /\ R[k].factor \in 1..Len(E)
                 /\ E[R[k].factor] >= 10
                 /\ R[k].eigenvalue = E[R[k].factor]
                 /\ R[k].cumulative = (IF R[k].factor \in DOMAIN C
                                       THEN C[R[k].factor] ELSE 0)
                 /\ \A j \in 1..(k - 1) : R[j].factor < R[k].factor
            /\ E = <<21, 13, 9, 4>> => [k \in 1..Len(R) |-> R[k].factor] = <<1, 2>>

\* A list with an entry below 1.0 before entries at and above it, and no
\* cumulative variance for the last one, has been rendered.
C14_Witness ==
    /\ last.op = "render"
    /\ last.out.result.eigenvalues = <<9, 10, 21>>
    /\ last.out.result.cumulative_variance = <<457, 739>>
    /\ dom.resultSummary.factorRows =
         << [factor |-> 2, eigenvalue |-> 10, cumulative |-> 739],
            [factor |-> 3, eigenvalue |-> 21, cumulative |-> 0] >>

\* -------------------------------------------------------------------
\* C15: at most one status request is in flight at any instant, and the
\* responses are applied in the order the requests were issued.
\* Violated: every polling tick issues a request whether or not the last
\* one was answered, and each response is applied when it arrives.
C15_OneRequestInOrder ==
    [][ /\ Len(inflight') <= 1
        /\ last'.op = "statusResponse" => last'.req = Head(inflight) ]_vars

\* -------------------------------------------------------------------
\* C16: the elapsed-time interval is scheduled exactly when the polling
\* interval is, and neither is scheduled while the input, result or error
\* section is shown (Idle, Completed, Errored).
\* Violated: with two overlapping submissions (as in C1) the failure of
\* one shows the error section while the intervals of the other run, and
\* intervals whose handles were overwritten outlive stopPolling().
C16_TimersOnlyWhileRunning ==
    /\ (elapsedTimers # {}) <=> (pollTimers # {})
    /\ (visible("input") \/ visible("result") \/ visible("error"))
         => win.intervals = {}

\* -------------------------------------------------------------------
\* C17: every elapsed-time tick shows the whole seconds since the start
\* timestamp of the job, and between a start and the next reset or
\* terminal transition a tick never shows less than the tick before it.
\* Violated: a second, overlapping submission (as in C1) that succeeds
\* overwrites startTime with a later timestamp, and the display steps back.
C17_ElapsedNeverBackward ==
    [][ last'.op = "timerTick"
        => ( /\ dom'.elapsedTime =
                  ElapsedText((now - app.startTime) \div MsPerSecond)
             /\ (last.ticked /\ visible("progress"))
                  => Seconds(dom'.elapsedTime) >= Seconds(dom.elapsedTime) ) ]_vars

\* -------------------------------------------------------------------
\* C18: the four sections are mutually exclusive: in every reachable
\* state at most one is visible, and a showSection call from it leaves
\* exactly the requested one visible when the argument is one of the four
\* names, and none otherwise.
C18_SectionsExclusive ==
    /\ Cardinality({s \in Sections : visible(s)}) <= 1
    /\ \A name \in Sections \cup {"summary"} :
         {s \in Sections : ~showSection(W, name).dom.hidden[s]}
             = (IF name \in Sections THEN {name} ELSE {})

\* showSection has put up the progress section and then the result section.
C18_Witness ==
    /\ last.op = "statusResponse"
    /\ last.out.status = "completed"
    /\ {s \in Sections : visible(s)} = {"result"}

\* -------------------------------------------------------------------
\* C20: every status request is issued for the current job: none is sent
\* while sessionId is null, and each carries the id the most recent
\* successful submission returned.
\* Violated: a polling interval leaked by overlapping submissions (as in
\* C1) survives reset() and requests /api/status/null.
C20_RequestsForCurrentJob ==
    [][ last'.op = "pollTick"
        => ( /\ app.sessionId # NULL
             /\ last'.req.sid = app.sessionId
             /\ last'.req.sid = sessions
             /\ inflight' = Append(inflight, last'.req) ) ]_vars

\* -------------------------------------------------------------------
\* C19: saveQSortResult never raises: when the insert cannot be performed
\* (the client was not initialised) or reports an error, the failure is
\* logged and null is returned; the result is returned only on success.
\* Violated: with supabaseClient null, `supabaseClient.from` raises
\* TypeError before anything is logged, and nothing catches it.
C19_SaveNeverRaises ==
    /\ store.outcome # "TypeError"
    /\ (last.op = "saveCall" /\ store.supabaseClient = NULL)
         => ( /\ store.outcome = "null"
              /\ store.console[Len(store.console)] = "save failed" )
    /\ (last.op = "saveResponse" /\ store.outcome = "null")
         => store.console[Len(store.console)] = "save failed"
    /\ (last.op = "saveResponse" /\ store.outcome = "result")
         => store.console[Len(store.console)] = "save succeeded"

\* -------------------------------------------------------------------
\* C21: when the progress section is shown and the backend's status for
\* the job is terminal (completed or error) and stays so, with polling
\* ticks and their responses delivered and no reset, the controller
\* eventually shows the result or the error section with no interval
\* scheduled.
\* Violated: a status "error" that carries its error string is thrown
\* away by checkStatus() before the status is read (as in C2), so the
\* controller polls forever.
C21_TerminalStatusEndsPolling ==
    (visible("progress") /\ backend.status \in {"completed", "error"})
        ~> ( /\ visible("result") \/ visible("error")
             /\ win.intervals = {} )

====
